---- MODULE Spec2Model ----
(***************************************************************************)
(* r.MaxPower (RaPlaT): per raster point, the cell_num strongest received  *)
(* powers of map_number radio cells, the sum of all received powers, and   *)
(* the output raster derived from them.                                    *)
(*                                                                         *)
(* Powers are whole dBm.  Linear power (mW) is a fixed-point integer: one  *)
(* unit is 1/1000 of the mW value of the weakest power of the run that is  *)
(* still a nonzero single-precision number; 10^(k/10) is tabulated to four *)
(* digits.  A power whose mW value is below the smallest single-precision  *)
(* number contributes exactly 0, as the store into float *arr_sumpower     *)
(* makes it.                                                               *)
(***************************************************************************)
EXTENDS Integers, Sequences, FiniteSets, TLC

\* ---------------------------------------------------------------- bounds
MaxMaps == 3            \* largest map_number (number of input cells) explored
MaxMapsOut == 2         \* largest map_number explored together with every output configuration
num_points == 1         \* nrows * ncols
MaxPoints == 6          \* largest nrows * ncols explored when the data table is filled
MaxPacket == 2          \* largest dbperf below 99 explored
MaxMapsTable == 2       \* largest map_number explored when the data table is created
MaxFaults == 1          \* most file operations that fail in a run

\* ------------------------------------------------------ program constants
DB_MIN_VAL == -999      \* value standing for a null raster cell
FloatUnderflowDb == -452 \* 10^(p/10) rounds to 0.0f for every whole p at or below this

\* received powers (Pt - path loss) that occur in the input rasters
RxPowers == {-1000, -80, -73}

GENERATE_BASIC == {"rss-max", "coverage", "rss-sum", "rss-maxix"}
GENERATE_LTE == {"lte-rssi", "lte-rsrp", "lte-rsrq", "lte-cinr", "lte-maxspecteff", "lte-maxthrput", "lte-interfere"}
GENERATE_default == "rss-max"

\* receive thresholds explored: below the null value, the default, a power that occurs
RxThresholds == {DB_MIN_VAL - 1, DB_MIN_VAL, -80}

\* values the LTE computation may deliver for a point
LteOutVals == {DB_MIN_VAL, -120}

VARIABLES
  map_number,    \* number of input cells (lines of cell_input)
  cell_num,      \* number of ranked slots per point, after the tweak of line 678
  generate,      \* selected output contents
  rx_thresh,     \* receive threshold
  pc,            \* position in main: "fold", "finalize", "select", "raster", "written",
                 \* and, with a data table: "create", "aggregate", "open", "scan", "close", "done", "fatal"
  map,           \* index of the map being folded
  arr_ix,        \* index of the point the fold loop is at
  arr_power,     \* arr_power[slot][point]
  arr_index,     \* arr_index[slot][point]
  arr_sumpower,  \* arr_sumpower[point]: mW units while folding, dBm after the conversion
  count_mem,     \* slot the sort starts from
  arr_EcNo,      \* arr_EcNo[point]
  arr_out,       \* result of the LTE computation, per point
  outrast,       \* the cells put to the output raster: [null, val] per point
  f_hist,        \* history: f_hist[m][point] is the f_in of map m at the point
  sum_mW,        \* history: arr_sumpower as it was when the dBm conversion started
  drv_name,      \* database driver: a driver of the GRASS installation, "none" or "csv"
  db_perf,       \* rows per INSERT, 99 for the load through a CSV file
  ovr,           \* GRASS_OVERWRITE is "1"
  nrows,         \* rows of the region
  ncols,         \* columns of the region
  tbl,           \* the table named tbl_name in the database
  out_file,      \* the file named tbl_name in the file system
  tmp_file,      \* the temporary file made by mkstemp
  csv_buf,       \* lines printed to csv_fp that are not in its file yet
  db_log,        \* history: the calls made to the database driver and to csv_fp, in order
  csv_only,      \* fill_database: driver is "csv"
  csv2db,        \* fill_database: lines go to a file, not into INSERT statements
  SQLPacketSize, \* fill_database: rows per INSERT statement
  row,           \* fill_database: row of the scan
  col,           \* fill_database: column of the scan
  SQLrowcnt,     \* fill_database: rows in the statement being built
  sql,           \* fill_database: the rows of the statement being built
  csv_fp,        \* fill_database: the stream csv_fp: "closed", "open", "null" (NULL from fdopen)
  faults,        \* environment: file operations that may still fail in this run
  sink_fail,     \* history: 0, or the length of db_log right after the first failed write-pass call
  BwMHz,         \* PdBm2LteThroughput: *BwMHz, in tenths of a MHz
  nRB,           \* PdBm2LteThroughput: number of resource blocks
  tmpInt,        \* PdBm2LteThroughput: the quantized ratio of the point
  k_scan,        \* PdBm2LteThroughput: k, the index of the threshold scan
  sigOut,        \* PdBm2LteThroughput: sigOut[ij], in units of LTE_TABLEFACT
  lte_pc,        \* position in PdBm2LteThroughput: "idle", "bw", "scan", "effic", "out"
  cinr_read,     \* history: the indexes at which LTE_CINRTABLE was read
  effic_read     \* history: the indexes at which LTE_EFFICTABLE was read

\* the state of the data table output
dbvars == <<drv_name, db_perf, ovr, nrows, ncols, tbl, out_file, tmp_file, csv_buf,
            db_log, csv_only, csv2db, SQLPacketSize, row, col, SQLrowcnt, sql,
            csv_fp, faults, sink_fail>>

\* the state of PdBm2LteThroughput for one point
ltevars == <<BwMHz, nRB, tmpInt, k_scan, sigOut, lte_pc, cinr_read, effic_read>>

vars == <<map_number, cell_num, generate, rx_thresh, pc, map, arr_ix,
          arr_power, arr_index, arr_sumpower, count_mem, arr_EcNo, arr_out,
          outrast, f_hist, sum_mW, dbvars, ltevars>>

Points == 0 .. num_points - 1
Slots == 0 .. cell_num - 1

\* ------------------------------------------------------------ arithmetic
Pow10Table == <<1000, 1259, 1585, 1995, 2512, 3162, 3981, 5012, 6310, 7943>>

RECURSIVE Pow10(_)
Pow10(n) == IF n = 0 THEN 1 ELSE 10 * Pow10(n - 1)

\* the weakest power of the run whose mW value is a nonzero float
LinBaseDb ==
  CHOOSE p \in RxPowers : p > FloatUnderflowDb /\ \A q \in RxPowers : q > FloatUnderflowDb => p <= q

\* pow( 10.0, f_in / 10.0) as stored into a float, in mW units
Lin(p) ==
  IF p <= FloatUnderflowDb THEN 0
  ELSE Pow10Table[((p - LinBaseDb) % 10) + 1] * Pow10((p - LinBaseDb) \div 10)

RECURSIVE Log10Floor(_)
Log10Floor(x) == IF x < 10 THEN 0 ELSE 1 + Log10Floor(x \div 10)

\* 10.0 * log10( x) for x > 0 mW units, in whole dBm (rounded down)
Db(x) ==
  LET n == Log10Floor(x \div 1000)
      mant == x \div Pow10(n)
      k == CHOOSE j \in 1 .. 10 :
             /\ Pow10Table[j] <= mant
             /\ \A i \in 1 .. 10 : Pow10Table[i] <= mant => i <= j
  IN LinBaseDb + 10 * n + (k - 1)


\* ------------------------------------------------- folding one reading in
\* the sum is overwritten, not added to
SumStep_assign(sum, m, f) ==
  IF f > DB_MIN_VAL THEN Lin(f) ELSE (IF m = 0 THEN 0 ELSE sum)

\* only the maps that get a slot of their own are added
SumStep_ranked(sum, m, f) ==
  LET s0 == IF m = 0 THEN 0 ELSE sum
  IN IF f > DB_MIN_VAL /\ m < cell_num THEN s0 + Lin(f) ELSE s0

\* lines 818-826: the sum of powers of the point after the reading f of map m
SumStep(sum, m, f) ==
  LET s0 == IF m = 0 THEN 0 ELSE sum
  IN IF f > DB_MIN_VAL THEN s0 + Lin(f) ELSE s0

\* the reading is compared with the strongest slot
Discard_first(f, pw) == f < pw[0]

\* the reading is never dropped
Discard_never(f, pw) == FALSE

\* line 836: with all slots taken, the reading is dropped
Discard(f, pw) == f < pw[cell_num - 1]

\* off by one: the slot before the last is overwritten
ReplaceSlot_before == IF cell_num > 1 THEN cell_num - 2 ELSE cell_num - 1

\* lines 839-840: the slot a reading that is not dropped is written to
ReplaceSlot == cell_num - 1

\* the comparison is the wrong way round
Higher_asc(a, b) == a < b

\* line 849: the entry moves one slot up
Higher(a, b) == a > b

\* lines 847-860: the sort of one point's slots, from slot i upwards
RECURSIVE SortUp(_, _, _)
SortUp(i, pw, ix) ==
  IF i > 0 /\ Higher(pw[i], pw[i - 1])
  THEN SortUp(i - 1,
              [pw EXCEPT ![i] = pw[i - 1], ![i - 1] = pw[i]],
              [ix EXCEPT ![i] = ix[i - 1], ![i - 1] = ix[i]])
  ELSE [pw |-> pw, ix |-> ix]

\* the slots are left as written
Sort_none(m, cm, pw, ix) == [pw |-> pw, ix |-> ix]

\* lines 845-861: no sort for the first map
Sort(m, cm, pw, ix) ==
  IF m # 0 THEN SortUp(cm, pw, ix) ELSE [pw |-> pw, ix |-> ix]

\* the reading that takes the last slot leaves the index of the entry it replaces
Place_unlabelled(m, cm, pw, ix, f) ==
  IF m < cell_num
  THEN LET s == Sort(m, m, [pw EXCEPT ![m] = f], [ix EXCEPT ![m] = m])
       IN [pw |-> s.pw, ix |-> s.ix, cm |-> m]
  ELSE IF Discard(f, pw)
       THEN [pw |-> pw, ix |-> ix, cm |-> cm]
       ELSE LET s == Sort(m, cm, [pw EXCEPT ![ReplaceSlot] = f], ix)
            IN [pw |-> s.pw, ix |-> s.ix, cm |-> cm]

\* lines 828-861: one point's slots (pw, ix) and count_mem after the reading f of map m
Place(m, cm, pw, ix, f) ==
  IF m < cell_num
  THEN LET s == Sort(m, m, [pw EXCEPT ![m] = f], [ix EXCEPT ![m] = m])
       IN [pw |-> s.pw, ix |-> s.ix, cm |-> m]
  ELSE IF Discard(f, pw)
       THEN [pw |-> pw, ix |-> ix, cm |-> cm]
       ELSE LET s == Sort(m, cm, [pw EXCEPT ![ReplaceSlot] = f], [ix EXCEPT ![ReplaceSlot] = m])
            IN [pw |-> s.pw, ix |-> s.ix, cm |-> cm]

\* one point's column of a slot-major array
Column(arr, pt) == [s \in Slots |-> arr[s][pt]]

\* the values f_in takes: DB_MIN_VAL for a null cell (line 820), Pt - path loss otherwise (line 821)
F_in == {DB_MIN_VAL} \cup RxPowers

\* lines 814-863: the body of the column loop for one point of one map
FoldPoint ==
  /\ pc = "fold"
  /\ \E f_in \in F_in :
       /\ LET r == Place(map, count_mem, Column(arr_power, arr_ix), Column(arr_index, arr_ix), f_in)
          IN /\ arr_power' = [s \in Slots |-> [arr_power[s] EXCEPT ![arr_ix] = r.pw[s]]]
             /\ arr_index' = [s \in Slots |-> [arr_index[s] EXCEPT ![arr_ix] = r.ix[s]]]
             /\ count_mem' = r.cm
       /\ arr_sumpower' = [arr_sumpower EXCEPT ![arr_ix] = SumStep(@, map, f_in)]
       /\ f_hist' = (<<map, arr_ix>> :> f_in) @@ f_hist
       /\ IF arr_ix + 1 < num_points
          THEN /\ arr_ix' = arr_ix + 1
               /\ UNCHANGED <<map, pc>>
          ELSE /\ arr_ix' = 0
               /\ IF map + 1 < map_number
                  THEN /\ map' = map + 1
                       /\ pc' = pc
                  ELSE /\ map' = map
                       /\ pc' = "finalize"
       /\ UNCHANGED <<map_number, cell_num, generate, rx_thresh, arr_EcNo, arr_out, outrast, sum_mW>>
       /\ UNCHANGED dbvars
  /\ UNCHANGED ltevars

\* ------------------------------------------------------ mW -> dBm
\* a zero sum is left as it is
ToDbm_zero(s) ==
  IF s = 0 THEN 0
  ELSE IF Db(s) < DB_MIN_VAL THEN DB_MIN_VAL ELSE Db(s)

\* lines 884-889
ToDbm(s) ==
  IF s = 0 THEN DB_MIN_VAL
  ELSE IF Db(s) < DB_MIN_VAL THEN DB_MIN_VAL ELSE Db(s)

\* lines 878-891
Finalize ==
  /\ pc = "finalize"
  /\ sum_mW' = arr_sumpower
  /\ arr_sumpower' = [pt \in Points |-> ToDbm(arr_sumpower[pt])]
  /\ pc' = "select"
  /\ UNCHANGED <<map_number, cell_num, generate, rx_thresh, map, arr_ix, arr_power,
                 arr_index, count_mem, arr_EcNo, arr_out, outrast, f_hist>>
  /\ UNCHANGED dbvars
  /\ UNCHANGED ltevars

\* ------------------------------------------------------ output contents
\* lines 893-934: the LTE modes have PdBm2LteThroughput fill arr_out
SelectOutput ==
  /\ pc = "select"
  /\ generate \in GENERATE_BASIC \cup GENERATE_LTE
  /\ \E o \in [Points -> LteOutVals] :
       arr_out' = IF generate \in GENERATE_LTE THEN o ELSE arr_out
  /\ pc' = "raster"
  /\ UNCHANGED <<map_number, cell_num, generate, rx_thresh, map, arr_ix, arr_power,
                 arr_index, arr_sumpower, count_mem, arr_EcNo, outrast, f_hist, sum_mW>>
  /\ UNCHANGED dbvars
  /\ UNCHANGED ltevars

\* lines 900-909: the array the output raster is taken from
out_raster(pt) ==
  IF generate \in {"rss-max", "coverage"} THEN arr_power[0][pt]
  ELSE IF generate = "rss-sum" THEN arr_sumpower[pt]
  ELSE IF generate = "rss-maxix" THEN arr_index[0][pt]
  ELSE arr_out[pt]

coverage_f == generate = "coverage"

\* a point exactly at the threshold passes
BelowThreshold_strict(p, t) == p < t

\* line 954
BelowThreshold(p, t) == p <= t

NullCell == [null |-> TRUE, val |-> 0]

\* lines 950-955: the cell made of the value f_out of a point whose strongest power is best
RasterCell(best, f_out) ==
  LET c1 == IF f_out <= DB_MIN_VAL THEN NullCell ELSE [null |-> FALSE, val |-> f_out]
  IN IF BelowThreshold(best, rx_thresh) THEN NullCell
     ELSE IF coverage_f THEN [null |-> FALSE, val |-> 1]
     ELSE c1

\* lines 947-957: the cell written for a point (all powers are whole, the CELL cast keeps them)
OutCell(pt) == RasterCell(arr_power[0][pt], out_raster(pt))

\* lines 937-966
WriteRaster ==
  /\ pc = "raster"
  /\ arr_EcNo' = [pt \in Points |-> arr_power[0][pt] - arr_sumpower[pt]]
  /\ outrast' = [pt \in Points |-> OutCell(pt)]
  /\ pc' = "written"
  /\ UNCHANGED <<map_number, cell_num, generate, rx_thresh, map, arr_ix, arr_power,
                 arr_index, arr_sumpower, count_mem, arr_out, f_hist, sum_mW>>
  /\ UNCHANGED dbvars
  /\ UNCHANGED ltevars

\* ------------------------------------------------------ data table output
SKIPNULL == 1           \* null points are not put in the output data table
dbperf_default == 20    \* answer of the option dbperf
dbperf_csv == 99        \* the dbperf that stands for the load through a CSV file

\* window.west + ew_res / 2, window.north - ns_res / 2 and ew_res, rounded (lines 973-975)
x_start == 500
y_start == 900
res_x == 100

\* the drivers explored: what db_list_drivers() may name, and "none" and "csv" (line 602)
Drivers == {"none", "csv", "dbf", "sqlite", "mysql", "pg", "odbc"}

NoTable == [exists |-> FALSE, cols |-> 0, rows |-> <<>>]
NoFile == [exists |-> FALSE, lines |-> <<>>]

\* what is in the destination named tbl_name before the run
OldLine == <<"old">>
OldTable == [exists |-> TRUE, cols |-> 0, rows |-> <<OldLine>>]
OldFile == [exists |-> TRUE, lines |-> <<OldLine>>]

\* a call to the database driver or to csv_fp, with what it carries
Call(op, arg) == [op |-> op, arg |-> arg]

GridPoints == 0 .. nrows * ncols - 1

\* db_table_exists (line 147); for PostgreSQL it may not find an existing table (line 170)
TableFound == IF tbl.exists THEN (IF drv_name = "pg" THEN {TRUE, FALSE} ELSE {TRUE}) ELSE {FALSE}

\* line 144
ncols_tab(k) == 4 * k + 4

\* an existing table is deleted whether or not overwriting is allowed
MayDelete_always(flag) == TRUE

\* line 149
MayDelete(flag) == flag

\* lines 135-255: create_table with k slots; found, okdel, okdrop, okcreate are the
\* results of db_table_exists, db_delete_table, DROP TABLE IF EXISTS and db_create_table
create_table(k, found, okdel, okdrop, okcreate) ==
  LET l0 == Append(db_log, Call("table_exists", 0))
      a == IF found /\ MayDelete(ovr)
           THEN [tbl |-> IF okdel THEN NoTable ELSE tbl, log |-> Append(l0, Call("delete_table", 0)), ok |-> okdel]
           ELSE [tbl |-> tbl, log |-> l0, ok |-> ~found]
      b == IF a.ok /\ drv_name = "pg" /\ ovr
           THEN [tbl |-> IF okdrop THEN NoTable ELSE a.tbl, log |-> Append(a.log, Call("drop_table", 0)), ok |-> okdrop]
           ELSE a
      made == okcreate /\ ~b.tbl.exists
  IN IF b.ok
     THEN [tbl |-> IF made THEN [exists |-> TRUE, cols |-> ncols_tab(k), rows |-> <<>>] ELSE b.tbl,
           log |-> Append(b.log, Call("create_table", ncols_tab(k))),
           ok |-> made]
     ELSE b

\* every slot asked for is kept without a data table
OneSlot_never(drv) == FALSE

\* line 684: without a data table only the strongest cell is kept
OneSlot(drv) == drv = "none"

\* lines 677-684: create/overwrite the data table and tweak cell_num
CreateTable ==
  /\ pc = "create"
  /\ LET k == IF cell_num > map_number THEN map_number ELSE cell_num
     IN IF drv_name # "none" /\ drv_name # "csv"
        THEN \E found \in TableFound : \E okdel \in BOOLEAN : \E okdrop \in BOOLEAN : \E okcreate \in BOOLEAN :
               LET r == create_table(k, found, okdel, okdrop, okcreate)
               IN /\ tbl' = r.tbl
                  /\ db_log' = r.log
                  /\ pc' = IF r.ok THEN "aggregate" ELSE "fatal"
                  /\ cell_num' = k
        ELSE /\ cell_num' = IF OneSlot(drv_name) THEN 1 ELSE k
             /\ pc' = "aggregate"
             /\ UNCHANGED <<tbl, db_log>>
  /\ UNCHANGED <<map_number, generate, rx_thresh, map, arr_ix, arr_power, arr_index, arr_sumpower,
                 count_mem, arr_EcNo, arr_out, outrast, f_hist, sum_mW>>
  /\ UNCHANGED <<drv_name, db_perf, ovr, nrows, ncols, out_file, tmp_file, csv_buf,
                 csv_only, csv2db, SQLPacketSize, row, col, SQLrowcnt, sql,
                 csv_fp, faults, sink_fail>>
  /\ UNCHANGED ltevars

\* lines 814-863 for one point, map after map: the slots and the sum of the point
\* whose readings are f[0], f[1], ...; count_mem is map while the slots fill up
\* and cell_num - 1 afterwards
RECURSIVE FoldMaps(_, _, _)
FoldMaps(m, st, f) ==
  IF m = map_number THEN st
  ELSE LET r == Place(m, IF m < cell_num THEN m ELSE cell_num - 1, st.pw, st.ix, f[m])
       IN FoldMaps(m + 1, [pw |-> r.pw, ix |-> r.ix, sum |-> SumStep(st.sum, m, f[m])], f)

\* the drivers explored with a region of several rows
FillDrivers == {"csv", "sqlite", "pg", "odbc"}

\* the received powers explored with a data table
DbPowers == {DB_MIN_VAL, -80}

\* lines 793-966: all maps folded in, the sums converted, the output raster written
Aggregate ==
  /\ pc = "aggregate"
  /\ \E f \in [GridPoints -> [0 .. map_number - 1 -> DbPowers]] :
       LET zero == [s \in Slots |-> 0]
           st == [pt \in GridPoints |-> FoldMaps(0, [pw |-> zero, ix |-> zero, sum |-> 0], f[pt])]
       IN /\ arr_power' = [s \in Slots |-> [pt \in GridPoints |-> st[pt].pw[s]]]
          /\ arr_index' = [s \in Slots |-> [pt \in GridPoints |-> st[pt].ix[s]]]
          /\ sum_mW' = [pt \in GridPoints |-> st[pt].sum]
          /\ arr_sumpower' = [pt \in GridPoints |-> ToDbm(st[pt].sum)]
          /\ arr_EcNo' = [pt \in GridPoints |-> st[pt].pw[0] - ToDbm(st[pt].sum)]
          /\ outrast' = [pt \in GridPoints |->
                           RasterCell(st[pt].pw[0],
                                      IF generate = "rss-sum" THEN ToDbm(st[pt].sum)
                                      ELSE IF generate = "rss-maxix" THEN st[pt].ix[0]
                                      ELSE st[pt].pw[0])]
          /\ f_hist' = [k \in (0 .. map_number - 1) \X GridPoints |-> f[k[2]][k[1]]]
  /\ map' = map_number - 1
  /\ count_mem' = cell_num - 1
  /\ pc' = IF drv_name = "none" THEN "done" ELSE "open"
  /\ UNCHANGED <<map_number, cell_num, generate, rx_thresh, arr_ix, arr_out>>
  /\ UNCHANGED dbvars
  /\ UNCHANGED ltevars

\* the result of the call is not looked at
AfterCall_unchecked(ok, next) == next

\* lines 314, 337, 398, 412, 447: G_fatal_error when a call fails
AfterCall(ok, next) == IF ok THEN next ELSE "fatal"

\* an existing file is overwritten whether or not overwriting is allowed
Rejected_never(exists, flag) == FALSE

\* lines 330-333: the output file is there and must stay
Rejected(exists, flag) == exists /\ ~flag

\* 99 is taken for a packet size
Batched_le(perf) == perf >= 0 /\ perf <= dbperf_csv

\* lines 291-300: rows go into INSERT statements
Batched(perf) == perf >= 0 /\ perf < dbperf_csv

\* what mkstemp (line 321) and fprintf (line 387) may deliver: they fail only while
\* the environment has failures left
FileOk == IF faults > 0 THEN BOOLEAN ELSE {TRUE}

\* the failed call is the last of the log; only the first failure is kept
FirstFail(failed, log) == IF failed /\ sink_fail = 0 THEN Len(log) ELSE sink_fail

\* lines 278-339: the strategy, the transaction or the file; the results of mkstemp,
\* fchmod and fdopen are not looked at
FillOpen ==
  /\ pc = "open"
  /\ LET only == drv_name = "csv"
         perf == IF drv_name = "dbf" \/ drv_name = "sqlite" THEN 1 ELSE db_perf
         tofile == IF only THEN TRUE ELSE ~Batched(perf)
     IN /\ csv_only' = only
        /\ csv2db' = tofile
        /\ SQLPacketSize' = IF only THEN SQLPacketSize ELSE IF Batched(perf) THEN perf ELSE 1
        /\ IF ~tofile
           THEN \E ok \in BOOLEAN :
                  /\ db_log' = db_log \o <<Call("start_driver", 0), Call("begin_transaction", 0)>>
                  /\ pc' = AfterCall(ok, "scan")
                  /\ UNCHANGED <<out_file, tmp_file, csv_fp, faults, sink_fail>>
           ELSE IF ~only
                THEN \E made \in FileOk :
                       /\ db_log' = db_log \o <<Call("start_driver", 0), Call("mkstemp", 0)>>
                       /\ tmp_file' = IF made THEN [exists |-> TRUE, lines |-> <<>>] ELSE tmp_file
                       /\ csv_fp' = IF made THEN "open" ELSE "null"
                       /\ faults' = IF made THEN faults ELSE faults - 1
                       /\ sink_fail' = FirstFail(~made, db_log')
                       /\ pc' = "scan"
                       /\ UNCHANGED out_file
                ELSE IF Rejected(out_file.exists, ovr)
                     THEN /\ pc' = "fatal"
                          /\ UNCHANGED <<db_log, out_file, tmp_file, csv_fp, faults, sink_fail>>
                     ELSE \E ok \in BOOLEAN :
                            /\ db_log' = Append(db_log, Call("fopen", 0))
                            /\ out_file' = IF ok THEN [exists |-> TRUE, lines |-> <<>>] ELSE out_file
                            /\ csv_fp' = IF ok THEN "open" ELSE "null"
                            /\ pc' = AfterCall(ok, "scan")
                            /\ UNCHANGED <<tmp_file, faults, sink_fail>>
  /\ row' = 0
  /\ col' = 0
  /\ SQLrowcnt' = 0
  /\ UNCHANGED <<map_number, cell_num, generate, rx_thresh, map, arr_ix, arr_power, arr_index,
                 arr_sumpower, count_mem, arr_EcNo, arr_out, outrast, f_hist, sum_mW>>
  /\ UNCHANGED <<drv_name, db_perf, ovr, nrows, ncols, tbl, csv_buf, sql>>
  /\ UNCHANGED ltevars

\* lines 373-384: the values of a point: x, y, res, per slot the cell (by its
\* index, from which name, antenna id and model follow) and its power, and Ec/No
Record(pt, x, y) ==
  <<x, y, res_x,
    [cell \in 1 .. cell_num |-> <<arr_index[cell - 1][pt], arr_power[cell - 1][pt]>>],
    arr_EcNo[pt]>>

\* the line of a point has no Ec/No when it goes to the temporary file
CsvLine_tmp(rec) == IF csv_only THEN rec ELSE SubSeq(rec, 1, 4)

\* line 387: the line printed to csv_fp
CsvLine(rec) == rec


\* null points are put in the output as well
Skipped_never(pt) == FALSE

\* line 356: the point is not put in the output
Skipped(pt) == SKIPNULL # 0 /\ arr_power[0][pt] = DB_MIN_VAL

\* the statement is executed only when it is full
FlushNow_full(cnt, c) == cnt = SQLPacketSize

\* the statement also runs on through the end of the grid row
FlushNow_grid(cnt, c) == cnt = SQLPacketSize \/ (c + 1 = ncols /\ row + 1 = nrows)

\* line 396: the statement is executed after this point
FlushNow(cnt, c) == cnt = SQLPacketSize \/ c + 1 = ncols

\* lines 349-403: the body of the column loop for one point; the result of fprintf
\* is not looked at, and fprintf on a NULL stream either ends the process or returns
FillPoint ==
  /\ pc = "scan"
  /\ LET pt == row * ncols + col
         rec == Record(pt, x_start + col * res_x, y_start - row * res_x)
         put == ~Skipped(pt)
         print == put /\ csv2db
         cnt == IF put /\ ~csv2db THEN SQLrowcnt + 1 ELSE SQLrowcnt
         stmt == IF put /\ ~csv2db
                 THEN Append(IF SQLrowcnt = 0 THEN <<>> ELSE sql, rec)
                 ELSE sql
         exec == ~csv2db /\ cnt > 0 /\ FlushNow(cnt, col)
         last == col + 1 = ncols /\ row + 1 = nrows
         next == IF last THEN "close" ELSE "scan"
     IN /\ sql' = stmt
        /\ \E ok \in BOOLEAN : \E written \in FileOk : \E ends \in BOOLEAN :
             LET lost == print /\ (csv_fp = "null" \/ ~written)
             IN /\ csv_buf' = IF print /\ ~lost THEN Append(csv_buf, CsvLine(rec)) ELSE csv_buf
                /\ db_log' = IF print THEN Append(db_log, Call("fprintf", CsvLine(rec)))
                             ELSE IF exec THEN Append(db_log, Call("insert", stmt))
                             ELSE db_log
                /\ tbl' = IF exec /\ ok THEN [tbl EXCEPT !.rows = @ \o stmt] ELSE tbl
                /\ SQLrowcnt' = IF exec \/ col + 1 = ncols THEN 0 ELSE cnt
                /\ faults' = IF print /\ csv_fp = "open" /\ ~written THEN faults - 1 ELSE faults
                /\ sink_fail' = FirstFail(lost \/ (exec /\ ~ok), db_log')
                /\ pc' = IF print /\ csv_fp = "null" /\ ends THEN "crash"
                         ELSE AfterCall(~exec \/ ok, next)
        /\ col' = IF col + 1 = ncols THEN 0 ELSE col + 1
        /\ row' = IF col + 1 = ncols /\ ~last THEN row + 1 ELSE row
  /\ UNCHANGED <<map_number, cell_num, generate, rx_thresh, map, arr_ix, arr_power, arr_index,
                 arr_sumpower, count_mem, arr_EcNo, arr_out, outrast, f_hist, sum_mW>>
  /\ UNCHANGED <<drv_name, db_perf, ovr, nrows, ncols, out_file, tmp_file,
                 csv_only, csv2db, SQLPacketSize, csv_fp>>
  /\ UNCHANGED ltevars

\* the lines stay in the buffer of csv_fp
Flushed_not(file, buf) == file

\* line 418 (and fclose, line 450): the buffered lines get into the file
Flushed(file, buf) == [file EXCEPT !.lines = @ \o buf]

\* lines 424, 434
LoadDrivers == {"mysql", "pg"}

\* lines 406-459: commit, or load the CSV file, and close; what is left in the
\* buffer of csv_fp gets into its file at fclose or at exit; rewind on a NULL stream
\* (line 419) either ends the process or returns
FillClose ==
  /\ pc = "close"
  /\ \E ok \in BOOLEAN : \E ends \in BOOLEAN :
       IF ~csv2db
       THEN /\ db_log' = Append(db_log, Call("commit_transaction", 0))
            /\ pc' = AfterCall(ok, "done")
            /\ UNCHANGED <<tbl, out_file, tmp_file, csv_buf, sink_fail>>
       ELSE IF ~csv_only
            THEN /\ IF csv_fp = "null" /\ ends
                    THEN /\ db_log' = Append(db_log, Call("fflush", 0))
                         /\ pc' = "crash"
                         /\ UNCHANGED <<tbl, sink_fail>>
                    ELSE IF drv_name \in LoadDrivers
                    THEN LET file == Flushed(tmp_file, csv_buf)
                         IN /\ db_log' = db_log \o <<Call("fflush", 0), Call("load", file.lines)>>
                            /\ tbl' = IF ok THEN [tbl EXCEPT !.rows = @ \o file.lines] ELSE tbl
                            /\ sink_fail' = FirstFail(~ok, db_log')
                            /\ pc' = AfterCall(ok, "done")
                    ELSE /\ db_log' = Append(db_log, Call("fflush", 0))
                         /\ pc' = "fatal"
                         /\ UNCHANGED <<tbl, sink_fail>>
                 /\ tmp_file' = [tmp_file EXCEPT !.lines = @ \o csv_buf]
                 /\ csv_buf' = <<>>
                 /\ UNCHANGED out_file
            ELSE /\ db_log' = Append(db_log, Call("fclose", 0))
                 /\ out_file' = [out_file EXCEPT !.lines = @ \o csv_buf]
                 /\ csv_buf' = <<>>
                 /\ pc' = "done"
                 /\ UNCHANGED <<tbl, tmp_file, sink_fail>>
  /\ UNCHANGED <<map_number, cell_num, generate, rx_thresh, map, arr_ix, arr_power, arr_index,
                 arr_sumpower, count_mem, arr_EcNo, arr_out, outrast, f_hist, sum_mW>>
  /\ UNCHANGED <<drv_name, db_perf, ovr, nrows, ncols, csv_only, csv2db, SQLPacketSize,
                 row, col, SQLrowcnt, sql, csv_fp, faults>>
  /\ UNCHANGED ltevars

\* ------------------------------------------------------ main, start to end
\* lines 755-790: the arrays are allocated and zeroed, the first map is opened
Allocate ==
  /\ pc = "aggregate"
  /\ nrows * ncols = num_points
  /\ arr_power' = [s \in Slots |-> [pt \in Points |-> 0]]
  /\ arr_index' = [s \in Slots |-> [pt \in Points |-> 0]]
  /\ arr_sumpower' = [pt \in Points |-> 0]
  /\ arr_EcNo' = [pt \in Points |-> 0]
  /\ arr_out' = [pt \in Points |-> 0]
  /\ outrast' = [pt \in Points |-> NullCell]
  /\ sum_mW' = [pt \in Points |-> 0]
  /\ map' = 0
  /\ arr_ix' = 0
  /\ count_mem' = 0
  /\ pc' = "fold"
  /\ UNCHANGED <<map_number, cell_num, generate, rx_thresh, f_hist>>
  /\ UNCHANGED dbvars
  /\ UNCHANGED ltevars

\* the data table is filled while the maps are still being folded in
Aggregated_early == pc = "written" \/ pc = "fold"

\* line 969 is reached when the output raster is closed (line 965)
Aggregated == pc = "written"

\* lines 969-998: fill_database is called unless the driver is "none"
CallFill ==
  /\ Aggregated
  /\ pc' = IF drv_name = "none" THEN "done" ELSE "open"
  /\ UNCHANGED <<map_number, cell_num, generate, rx_thresh, map, arr_ix, arr_power, arr_index,
                 arr_sumpower, count_mem, arr_EcNo, arr_out, outrast, f_hist, sum_mW>>
  /\ UNCHANGED dbvars
  /\ UNCHANGED ltevars

\* ------------------------------------------------------ LTE_RaPlaT_Fun.c
LTE_CINRSIZE == 15      \* length of the two tables
LTE_NRB == 50           \* default number of resource blocks
LTE_BWMHZ == 100        \* default bandwidth, 10.0 MHz, in tenths of a MHz

\* LTE_RaPlaT_Fun.h, lines 29-33: efficiency, in units of LTE_TABLEFACT
LTE_EFFICTABLE == <<1523, 2344, 3770, 6016, 8770, 11758, 14766, 19141, 24063, 27305,
                    33223, 39023, 45234, 51152, 55547>>

\* LTE_RaPlaT_Fun.h, lines 36-40: CINR thresholds, in units of LTE_TABLEFACT dB
LTE_CINRTABLE == <<-70000, -50714, -31429, -12143, 7143, 26429, 45714, 65000, 84286, 103571,
                   122857, 142143, 161429, 180714, 200000>>

\* what a read past the end of a table of int may deliver: whatever the linker put there
PastTheEnd == {-(2^30), 0, 2^30}

\* the values a read of table[i] (C index, from 0) may deliver
TableAt(table, i) == IF i >= 0 /\ i < LTE_CINRSIZE THEN {table[i + 1]} ELSE PastTheEnd

\* (int)( *BwMHz): the whole MHz of a bandwidth given in tenths of a MHz
WholeMHz(bw) == bw \div 10

\* lines 27-60: the number of resource blocks and the bandwidth left in *BwMHz
BwMHz2nRB(bw) ==
  LET iBwMHz == WholeMHz(bw) * 10
  IN CASE iBwMHz = 14 -> [nRB |-> 6, BwMHz |-> bw]
       [] iBwMHz = 30 -> [nRB |-> 15, BwMHz |-> bw]
       [] iBwMHz = 50 -> [nRB |-> 25, BwMHz |-> bw]
       [] iBwMHz = 100 -> [nRB |-> 50, BwMHz |-> bw]
       [] iBwMHz = 150 -> [nRB |-> 75, BwMHz |-> bw]
       [] iBwMHz = 200 -> [nRB |-> 100, BwMHz |-> bw]
       [] OTHER -> [nRB |-> LTE_NRB, BwMHz |-> LTE_BWMHZ]

\* the bandwidths explored, in tenths of a MHz: the six of LTE and others
Bandwidths == {14, 30, 50, 100, 150, 200} \cup {10, 35, 57, 109, 155, 250}

\* the quantized ratios explored: at, just below and just above each threshold, and far out
QuantizedRatios ==
  UNION {{LTE_CINRTABLE[i] - 1, LTE_CINRTABLE[i], LTE_CINRTABLE[i] + 1} : i \in 1 .. LTE_CINRSIZE}
    \cup {-(2^29), 2^29}

\* line 320 (and 395 for the point): the resource blocks of the bandwidth
CallBwMHz2nRB ==
  /\ lte_pc = "bw"
  /\ nRB' = BwMHz2nRB(BwMHz).nRB
  /\ BwMHz' = BwMHz2nRB(BwMHz).BwMHz
  /\ k_scan' = -1
  /\ lte_pc' = "scan"
  /\ UNCHANGED <<tmpInt, sigOut, cinr_read, effic_read>>
  /\ UNCHANGED <<map_number, cell_num, generate, rx_thresh, pc, map, arr_ix, arr_power, arr_index,
                 arr_sumpower, count_mem, arr_EcNo, arr_out, outrast, f_hist, sum_mW>>
  /\ UNCHANGED dbvars

\* lines 398-402: one evaluation of the loop condition, and the loop body if it holds
ScanStep ==
  /\ lte_pc = "scan"
  /\ cinr_read' = cinr_read \cup {k_scan + 1}
  /\ \E v \in TableAt(LTE_CINRTABLE, k_scan + 1) :
       IF tmpInt > v
       THEN IF k_scan + 1 > LTE_CINRSIZE
            THEN k_scan' = LTE_CINRSIZE - 1 /\ lte_pc' = "effic"
            ELSE k_scan' = k_scan + 1 /\ lte_pc' = "scan"
       ELSE k_scan' = k_scan /\ lte_pc' = "effic"
  /\ UNCHANGED <<BwMHz, nRB, tmpInt, sigOut, effic_read>>
  /\ UNCHANGED <<map_number, cell_num, generate, rx_thresh, pc, map, arr_ix, arr_power, arr_index,
                 arr_sumpower, count_mem, arr_EcNo, arr_out, outrast, f_hist, sum_mW>>
  /\ UNCHANGED dbvars

\* lines 403-406: the efficiency of the index found, 0 when there is none
Efficiency ==
  /\ lte_pc = "effic"
  /\ IF k_scan > -1
     THEN /\ effic_read' = effic_read \cup {k_scan}
          /\ sigOut' \in TableAt(LTE_EFFICTABLE, k_scan)
     ELSE /\ sigOut' = 0
          /\ UNCHANGED effic_read
  /\ lte_pc' = "out"
  /\ UNCHANGED <<BwMHz, nRB, tmpInt, k_scan, cinr_read>>
  /\ UNCHANGED <<map_number, cell_num, generate, rx_thresh, pc, map, arr_ix, arr_power, arr_index,
                 arr_sumpower, count_mem, arr_EcNo, arr_out, outrast, f_hist, sum_mW>>
  /\ UNCHANGED dbvars

\* ------------------------------------------------------ specifications
\* the state of main at line 793: arrays zeroed, cell_num <= map_number
InitMain(maxmaps, gens, thresholds) ==
  /\ map_number \in 1 .. maxmaps
  /\ cell_num \in 1 .. map_number
  /\ generate \in gens
  /\ rx_thresh \in thresholds
  /\ pc = "fold"
  /\ map = 0
  /\ arr_ix = 0
  /\ arr_power = [s \in Slots |-> [pt \in Points |-> 0]]
  /\ arr_index = [s \in Slots |-> [pt \in Points |-> 0]]
  /\ arr_sumpower = [pt \in Points |-> 0]
  /\ count_mem = 0
  /\ arr_EcNo = [pt \in Points |-> 0]
  /\ arr_out = [pt \in Points |-> 0]
  /\ outrast = [pt \in Points |-> NullCell]
  /\ f_hist = <<>>
  /\ sum_mW = [pt \in Points |-> 0]
  /\ drv_name = "none"
  /\ db_perf = dbperf_default
  /\ ovr = FALSE
  /\ nrows = 1
  /\ ncols = num_points
  /\ tbl = NoTable
  /\ out_file = NoFile
  /\ tmp_file = NoFile
  /\ csv_buf = <<>>
  /\ db_log = <<>>
  /\ csv_only = FALSE
  /\ csv2db = FALSE
  /\ SQLPacketSize = 0
  /\ row = 0
  /\ col = 0
  /\ SQLrowcnt = 0
  /\ sql = <<>>
  /\ csv_fp = "closed"
  /\ sink_fail = 0

\* PdBm2LteThroughput is not running
LteIdle ==
  /\ BwMHz = 50
  /\ nRB = 0
  /\ tmpInt = 0
  /\ k_scan = -1
  /\ sigOut = 0
  /\ lte_pc = "idle"
  /\ cinr_read = {}
  /\ effic_read = {}

\* default output contents and threshold
Init == InitMain(MaxMaps, {GENERATE_default}, {DB_MIN_VAL}) /\ faults = 0 /\ LteIdle

\* every output contents and threshold
InitOut == InitMain(MaxMapsOut, GENERATE_BASIC \cup GENERATE_LTE, RxThresholds) /\ faults = 0 /\ LteIdle

\* the aggregation pass: lines 793-891
Next == FoldPoint \/ Finalize

\* the aggregation pass followed by the output raster: lines 793-966
NextOut == Next \/ SelectOutput \/ WriteRaster

Spec == Init /\ [][Next]_vars

SpecOut == InitOut /\ [][NextOut]_vars

\* the state of main at line 677, with the region, the options and the destination given
InitDb(geoms, maps, cellnums, drivers, perfs, thresholds) ==
  /\ map_number \in maps
  /\ cell_num \in cellnums
  /\ generate = GENERATE_default
  /\ rx_thresh \in thresholds
  /\ pc = "create"
  /\ map = 0
  /\ arr_ix = 0
  /\ arr_power = <<>>
  /\ arr_index = <<>>
  /\ arr_sumpower = <<>>
  /\ count_mem = 0
  /\ arr_EcNo = <<>>
  /\ arr_out = <<>>
  /\ outrast = <<>>
  /\ f_hist = <<>>
  /\ sum_mW = <<>>
  /\ drv_name \in drivers
  /\ db_perf \in perfs
  /\ ovr \in BOOLEAN
  /\ \E g \in geoms : nrows = g[1] /\ ncols = g[2]
  /\ \E there \in BOOLEAN :
       /\ tbl = IF there /\ drv_name \notin {"none", "csv"} THEN OldTable ELSE NoTable
       /\ out_file = IF there /\ drv_name = "csv" THEN OldFile ELSE NoFile
  /\ tmp_file = NoFile
  /\ csv_buf = <<>>
  /\ db_log = <<>>
  /\ csv_only = FALSE
  /\ csv2db = FALSE
  /\ SQLPacketSize = 0
  /\ row = 0
  /\ col = 0
  /\ SQLrowcnt = 0
  /\ sql = <<>>
  /\ csv_fp = "closed"
  /\ sink_fail = 0

\* the values of dbperf explored: the packet sizes and the load through a CSV file
DbPerfs == (1 .. MaxPacket) \cup {dbperf_csv}

\* the regions of at most n points
Regions(n) == {g \in (1 .. n) \X (1 .. n) : g[1] * g[2] <= n}

\* every driver and dbperf; one slot asked for, or more than there are cells; one
\* or two points; the default threshold and one that a point is at
InitTable ==
  /\ InitDb(Regions(2), 1 .. MaxMapsTable, {1, MaxMapsTable + 1}, Drivers, DbPerfs, {DB_MIN_VAL, -80})
  /\ faults = 0
  /\ LteIdle

\* regions of several rows and columns, one cell
InitFill ==
  /\ InitDb(Regions(MaxPoints), {1}, {1}, FillDrivers, DbPerfs, {DB_MIN_VAL})
  /\ faults = 0
  /\ LteIdle

\* file operations may fail: small regions, the drivers of the three strategies
InitSink ==
  /\ InitDb(Regions(3), {1}, {1}, {"csv", "sqlite", "pg"}, DbPerfs, {DB_MIN_VAL})
  /\ faults = MaxFaults
  /\ LteIdle

\* main from line 677 to its end, every map folded in step by step
InitRun ==
  /\ InitDb({<<1, num_points>>}, {MaxMapsOut}, {MaxMapsOut}, {"csv", "pg"}, {1, dbperf_csv}, {DB_MIN_VAL})
  /\ faults = 0
  /\ LteIdle

\* PdBm2LteThroughput called for one point, outputs 's' and 't'
InitLte ==
  /\ InitMain(1, {"lte-maxspecteff", "lte-maxthrput"}, {DB_MIN_VAL})
  /\ faults = 0
  /\ BwMHz \in Bandwidths
  /\ nRB = 0
  /\ tmpInt \in QuantizedRatios
  /\ k_scan = -1
  /\ sigOut = 0
  /\ lte_pc = "bw"
  /\ cinr_read = {}
  /\ effic_read = {}

\* main with a data table asked for: lines 677-998
NextDb == CreateTable \/ Aggregate \/ FillOpen \/ FillPoint \/ FillClose

SpecTable == InitTable /\ [][NextDb]_vars

SpecFill == InitFill /\ [][NextDb]_vars

SpecSink == InitSink /\ [][NextDb]_vars

\* main with every step of the aggregation: lines 677-998
NextRun == CreateTable \/ Allocate \/ FoldPoint \/ Finalize \/ SelectOutput \/ WriteRaster
             \/ CallFill \/ FillOpen \/ FillPoint \/ FillClose

SpecRun == InitRun /\ [][NextRun]_vars

\* PdBm2LteThroughput: lines 320 and 393-412
NextLte == CallBwMHz2nRB \/ ScanStep \/ Efficiency

SpecLte == InitLte /\ [][NextLte]_vars

TypeOK ==
  /\ pc \in {"fold", "finalize", "select", "raster", "written"}
  /\ map \in 0 .. map_number - 1
  /\ arr_ix \in Points
  /\ count_mem \in 0 .. cell_num - 1


\* ------------------------------------------------------ properties
Min(a, b) == IF a < b THEN a ELSE b

Maps == 0 .. map_number - 1

\* number of maps folded into the point so far
Folded(pt) == IF pc = "fold" THEN (IF pt < arr_ix THEN map + 1 ELSE map) ELSE map_number

\* number of slots of the point written so far (line 830 writes slot map while map < cell_num)
RankedLen(pt) == Min(Folded(pt), cell_num)

\* the reading of map m at the point
Reading(m, pt) == f_hist[<<m, pt>>]

\* the (power, index) pairs in the first n slots of the point
Pairs(pw, ix, pt, n) == {<<pw[s][pt], ix[s][pt]>> : s \in 0 .. n - 1}

\* the first n slots of the point are in non-increasing order of power
SortedPrefix(pw, pt, n) == \A s \in 1 .. n - 1 : pw[s - 1][pt] >= pw[s][pt]

\* the maps whose index is in one of the first n slots of the point
RankedMaps(pt, n) == {arr_index[s][pt] : s \in 0 .. n - 1}

\* C1: at every point, after map m the first min(m+1, cell_num) slots are in
\* non-increasing order of power; once every map is folded in, all cell_num
\* slots are ordered and each holds a reading that was seen at the point.
C1_RankedSorted ==
  \A pt \in Points :
    /\ SortedPrefix(arr_power, pt, RankedLen(pt))
    /\ Folded(pt) = map_number =>
         /\ RankedLen(pt) = cell_num
         /\ \A s \in Slots : \E m \in Maps : arr_power[s][pt] = Reading(m, pt)

\* a later map was stronger than an earlier one, and every map is folded in
C1_Witness ==
  /\ pc = "finalize"
  /\ cell_num >= 2
  /\ \E pt \in Points : \E m \in Maps : m > 0 /\ Reading(m, pt) > Reading(m - 1, pt)

\* C2 (as claimed): a reading equal in power to an entry of the point's array
\* removes and re-labels no entry of it, and entries of equal power are in
\* order of increasing map index.
C2_TieStep ==
  (pc = "fold" /\ \E s \in 0 .. RankedLen(arr_ix) - 1 : arr_power[s][arr_ix] = f_hist'[<<map, arr_ix>>])
    => Pairs(arr_power, arr_index, arr_ix, RankedLen(arr_ix))
         \subseteq Pairs(arr_power', arr_index', arr_ix, cell_num)

C2_TieOrder ==
  \A pt \in Points : \A s \in 1 .. RankedLen(pt) - 1 :
    arr_power[s - 1][pt] = arr_power[s][pt] => arr_index[s - 1][pt] < arr_index[s][pt]

\* C2 (as claimed): both parts, over every step and every state
C2_FirstSeenWins == [][C2_TieStep]_vars /\ []C2_TieOrder

\* C3: with all cell_num slots of the point taken, a reading stronger than
\* the last slot leaves the old pairs without the former last one, plus the
\* new (power, map) pair, in non-increasing order.
C3_EvictStep ==
  (pc = "fold" /\ map >= cell_num /\ f_hist'[<<map, arr_ix>>] > arr_power[cell_num - 1][arr_ix])
    => /\ Pairs(arr_power', arr_index', arr_ix, cell_num)
            = (Pairs(arr_power, arr_index, arr_ix, cell_num)
                 \ {<<arr_power[cell_num - 1][arr_ix], arr_index[cell_num - 1][arr_ix]>>})
               \cup {<<f_hist'[<<map, arr_ix>>], map>>}
       /\ Cardinality(Pairs(arr_power', arr_index', arr_ix, cell_num)) = cell_num
       /\ SortedPrefix(arr_power', arr_ix, cell_num)

\* C3: the eviction step, over every step of the fold
C3_Eviction == [][C3_EvictStep]_vars

\* a map that came after the slots were taken holds a slot other than the
\* last, and a weaker earlier map holds none
C3_Witness ==
  /\ cell_num >= 2
  /\ \E pt \in Points : \E s \in 0 .. cell_num - 2 :
       /\ Folded(pt) > cell_num
       /\ arr_index[s][pt] >= cell_num
       /\ \E m \in 0 .. cell_num - 1 :
            /\ m \notin RankedMaps(pt, cell_num)
            /\ Reading(m, pt) < arr_power[s][pt]

\* the k strongest of the maps in S at the point, by repeated selection
RECURSIVE Strongest(_, _, _)
Strongest(pt, S, k) ==
  IF k = 0 \/ S = {} THEN {}
  ELSE LET m == CHOOSE i \in S : \A j \in S : Reading(j, pt) <= Reading(i, pt)
       IN {m} \cup Strongest(pt, S \ {m}, k - 1)

\* C4: once every map is folded in, the powers in the point's cell_num slots
\* are, value by value and as many times, the cell_num largest readings of
\* the point (a null reading counting as DB_MIN_VAL).
C4_TopK ==
  pc = "finalize" =>
    \A pt \in Points : \A v \in F_in :
      Cardinality({s \in Slots : arr_power[s][pt] = v})
        = Cardinality({m \in Strongest(pt, Maps, cell_num) : Reading(m, pt) = v})

\* more maps than slots, and a map beyond the first cell_num is among the strongest
C4_Witness ==
  /\ pc = "finalize"
  /\ map_number > cell_num
  /\ \E pt \in Points : \E m \in Maps : \E j \in Maps :
       m >= cell_num /\ j < cell_num /\ Reading(m, pt) > Reading(j, pt)


\* the maps whose reading at the point is above DB_MIN_VAL
AboveMin(pt) == {m \in Maps : Reading(m, pt) > DB_MIN_VAL}

\* C5 (as claimed): once every map is folded in, the number of entries the
\* point's array holds is min(cell_num, number of readings other than
\* DB_MIN_VAL).
C5_LengthAsClaimed ==
  pc = "finalize" =>
    \A pt \in Points :
      RankedLen(pt) = Min(cell_num, Cardinality({m \in Maps : Reading(m, pt) # DB_MIN_VAL}))

\* C5 (amended): once every map is folded in, the point's cell_num slots hold
\* cell_num different maps, and the slots with a power above DB_MIN_VAL
\* number min(cell_num, number of readings above DB_MIN_VAL).
C5_RankedLength ==
  pc = "finalize" =>
    \A pt \in Points :
      /\ Cardinality(RankedMaps(pt, cell_num)) = cell_num
      /\ Cardinality({s \in Slots : arr_power[s][pt] > DB_MIN_VAL})
           = Min(cell_num, Cardinality(AboveMin(pt)))

\* fewer readings above DB_MIN_VAL than slots, but at least one, and one of
\* them from a map that came when the slots were taken
C5_Witness ==
  /\ pc = "finalize"
  /\ \E pt \in Points :
       /\ Cardinality(AboveMin(pt)) < cell_num
       /\ \E m \in AboveMin(pt) : TRUE
       /\ \E m \in Maps : Reading(m, pt) < DB_MIN_VAL
  /\ map_number > cell_num

\* C6 (as claimed): a DB_MIN_VAL reading of a map other than the first takes
\* no slot of the point and changes no stored index.
C6_SentinelStepAsClaimed ==
  (pc = "fold" /\ map >= 1 /\ f_hist'[<<map, arr_ix>>] = DB_MIN_VAL)
    => /\ \A s \in 0 .. Min(map + 1, cell_num) - 1 : arr_index'[s][arr_ix] # map
       /\ \A s \in 0 .. Min(map, cell_num) - 1 : arr_index'[s][arr_ix] = arr_index[s][arr_ix]

\* C6 (as claimed), over every step of the fold
C6_SentinelOnlyFirst == [][C6_SentinelStepAsClaimed]_vars

\* C6 (amended): a DB_MIN_VAL reading of map m takes a slot whenever
\* m < cell_num; whatever m, it leaves every entry above DB_MIN_VAL in its
\* slot with its power and index.
C6_SentinelStep ==
  (pc = "fold" /\ f_hist'[<<map, arr_ix>>] = DB_MIN_VAL)
    => /\ map < cell_num => \E s \in 0 .. map : arr_index'[s][arr_ix] = map
       /\ \A s \in 0 .. Min(map, cell_num) - 1 :
            arr_power[s][arr_ix] > DB_MIN_VAL
              => /\ arr_power'[s][arr_ix] = arr_power[s][arr_ix]
                 /\ arr_index'[s][arr_ix] = arr_index[s][arr_ix]

\* C6 (amended), over every step of the fold
C6_SentinelKeepsStronger == [][C6_SentinelStep]_vars

\* the null reading of a later map holds a slot next to an entry above DB_MIN_VAL,
\* and another null reading came when the slots were taken
C6_Witness ==
  \E pt \in Points : \E s \in 1 .. RankedLen(pt) - 1 :
    /\ arr_power[s][pt] = DB_MIN_VAL
    /\ arr_index[s][pt] >= 1
    /\ arr_power[0][pt] > DB_MIN_VAL
    /\ \E m \in cell_num .. Folded(pt) - 1 : Reading(m, pt) = DB_MIN_VAL

\* the sum of Lin over the readings of the maps in S at the point
RECURSIVE LinSum(_, _)
LinSum(pt, S) ==
  IF S = {} THEN 0
  ELSE LET m == CHOOSE i \in S : TRUE
       IN Lin(Reading(m, pt)) + LinSum(pt, S \ {m})

\* C7: once every map is folded in, the point's sum in mW is the sum of
\* 10^(p/10) over the maps whose reading p is not DB_MIN_VAL, each once.
C7_AggregateSum ==
  pc = "finalize" =>
    \A pt \in Points :
      arr_sumpower[pt] = LinSum(pt, {m \in Maps : Reading(m, pt) # DB_MIN_VAL})

\* a null reading, a reading below DB_MIN_VAL and two readings that count,
\* one of them from a map that got no slot of its own
C7_Witness ==
  /\ pc = "finalize"
  /\ \E pt \in Points :
       /\ \E m \in Maps : Reading(m, pt) = DB_MIN_VAL
       /\ \E m \in Maps : m >= cell_num /\ Lin(Reading(m, pt)) > 0
       /\ \E m \in Maps : m < cell_num /\ Lin(Reading(m, pt)) > 0

\* C8: after the conversion every point's sum is at least DB_MIN_VAL; it is
\* DB_MIN_VAL exactly when the mW sum was zero or converts to less than
\* DB_MIN_VAL, and is 10*log10 of the mW sum otherwise.
C8_FinalizeFloor ==
  pc = "select" =>
    \A pt \in Points :
      LET s == sum_mW[pt]
          d == arr_sumpower[pt]
      IN /\ d >= DB_MIN_VAL
         /\ d = DB_MIN_VAL <=> (s = 0 \/ s < Lin(DB_MIN_VAL))
         /\ d # DB_MIN_VAL => (Lin(d) <= s /\ s < Lin(d + 1))

\* converted, from a sum that is not a single reading's mW value
C8_Witness ==
  /\ pc = "select"
  /\ \E pt \in Points : sum_mW[pt] > 0 /\ \A f \in F_in : sum_mW[pt] # Lin(f)

\* the point has exactly one reading other than DB_MIN_VAL, that of map m
OnlyReading(pt, m) ==
  /\ Reading(m, pt) # DB_MIN_VAL
  /\ \A j \in Maps \ {m} : Reading(j, pt) = DB_MIN_VAL

RECURSIVE CallsOf(_, _)
CallsOf(log, ops) ==
  IF log = <<>> THEN <<>>
  ELSE IF Head(log).op \in ops THEN <<Head(log)>> \o CallsOf(Tail(log), ops)
       ELSE CallsOf(Tail(log), ops)

\* the elements of a sequence
Range(seq) == {seq[i] : i \in 1 .. Len(seq)}

\* the records handed to the table or to a file so far, statement by statement
Persisted == UNION {IF c.op = "insert" THEN Range(c.arg) ELSE {c.arg} : c \in Range(CallsOf(db_log, {"insert", "fprintf"}))}

\* the point a record is of, from its x and y
PointOf(rec) == ((y_start - rec[2]) \div res_x) * ncols + (rec[1] - x_start) \div res_x

\* C11 (as claimed): whatever the driver and dbperf, no record is inserted
\* into the table or printed to the temporary or the output file for a point
\* whose strongest power is at or below the receive threshold.
C11_ThresholdPersisted ==
  \A rec \in Persisted : arr_power[0][PointOf(rec)] > rx_thresh

\* C12 (as claimed): with generate=coverage a point is put to the output
\* raster as 1 when its strongest power is not DB_MIN_VAL and is above the
\* receive threshold, and as null otherwise, whatever the threshold.
C12_CoverageRecode ==
  (pc = "written" /\ generate = "coverage") =>
    \A pt \in Points :
      IF arr_power[0][pt] # DB_MIN_VAL /\ arr_power[0][pt] > rx_thresh
      THEN outrast[pt] = [null |-> FALSE, val |-> 1]
      ELSE outrast[pt].null

\* the INSERT statements executed so far, each with its rows
Inserts == CallsOf(db_log, {"insert"})

\* the points of grid row r that are put in the output (line 356)
RowPoints(r) == {pt \in r * ncols .. r * ncols + ncols - 1 : arr_power[0][pt] # DB_MIN_VAL}

\* the grid row a record is of, from its y
RowOf(rec) == (y_start - rec[2]) \div res_x

Ceil(a, b) == (a + b - 1) \div b

\* the scan has ended with rows going into INSERT statements
ScanDoneBatched == pc \in {"close", "done"} /\ ~csv2db

\* the sizes of n statements that carry r rows in packets of p
PacketSizes(sizes, n, r, p) ==
  /\ Len(sizes) = n
  /\ \A j \in 1 .. n - 1 : sizes[j] = p
  /\ n > 0 => sizes[n] = r - p * (n - 1)

RECURSIVE InsertsOfRow(_, _)
InsertsOfRow(ins, r) ==
  IF ins = <<>> THEN <<>>
  ELSE IF \E rec \in Range(Head(ins).arg) : RowOf(rec) = r
       THEN <<Head(ins)>> \o InsertsOfRow(Tail(ins), r)
       ELSE InsertsOfRow(Tail(ins), r)

RECURSIVE RecordsFrom(_)
RecordsFrom(pt) ==
  IF pt >= nrows * ncols THEN <<>>
  ELSE IF arr_power[0][pt] = DB_MIN_VAL THEN RecordsFrom(pt + 1)
       ELSE << <<x_start + res_x * (pt % ncols), y_start - res_x * (pt \div ncols), res_x,
                 [s \in 1 .. cell_num |-> <<arr_index[s - 1][pt], arr_power[s - 1][pt]>>],
                 arr_power[0][pt] - arr_sumpower[pt]>> >> \o RecordsFrom(pt + 1)

\* the rows of the statements, one after the other
RECURSIVE RowsOf(_)
RowsOf(ins) == IF ins = <<>> THEN <<>> ELSE Head(ins).arg \o RowsOf(Tail(ins))

\* C14: every INSERT statement executed carries between 1 and N rows; after
\* each point of the scan the statement being built has fewer than N rows
\* (it is executed at the point that makes it N); when the scan has ended
\* the statement being built is empty and the statements executed carry the
\* records of all the points put in the output.
C14_BatchBounds ==
  /\ \A j \in 1 .. Len(Inserts) : Len(Inserts[j].arg) \in 1 .. SQLPacketSize
  /\ (pc = "scan" /\ ~csv2db) => SQLrowcnt < SQLPacketSize
  /\ ScanDoneBatched => (SQLrowcnt = 0 /\ RowsOf(Inserts) = RecordsFrom(0))

\* a statement was executed for being full and a later one for the end of a grid row
C14_Witness ==
  /\ pc = "done"
  /\ SQLPacketSize >= 2
  /\ \E j \in 1 .. Len(Inserts) : \E k \in 1 .. Len(Inserts) :
       /\ j < k
       /\ Len(Inserts[j].arg) = SQLPacketSize
       /\ Len(Inserts[k].arg) < SQLPacketSize

\* the ops of the calls made so far
Ops == {c.op : c \in Range(db_log)}

\* the calls of a transaction made so far, in order
Transaction == CallsOf(db_log, {"begin_transaction", "insert", "commit_transaction"})

\* the number of calls of the op made so far
Count(op) == Len(CallsOf(db_log, {op}))

\* C15: with rows going into INSERT statements, the transaction is begun at
\* most once and before any INSERT, committed at most once and after every
\* INSERT, and committed only with the rows of every INSERT executed in the
\* table; a run that ends well has begun and committed exactly once.
C15_SingleTransaction ==
  /\ Count("begin_transaction") <= 1
  /\ Count("commit_transaction") <= 1
  /\ Transaction # <<>> => Transaction[1].op = "begin_transaction"
  /\ "commit_transaction" \in Ops =>
       /\ Transaction[Len(Transaction)].op = "commit_transaction"
       /\ tbl.rows = RowsOf(Inserts)
  /\ (pc = "done" /\ ~csv2db /\ drv_name # "none") =>
       /\ Count("begin_transaction") = 1
       /\ Count("commit_transaction") = 1

\* committed after several INSERT statements
C15_Witness ==
  /\ pc = "done"
  /\ Len(Inserts) >= 2
  /\ Transaction[Len(Transaction)].op = "commit_transaction"

\* C16: with a driver other than none, after the strategy is chosen, driver
\* csv writes the output file and nothing else whatever dbperf; dbf and
\* sqlite execute INSERT statements of one row whatever dbperf; any other
\* driver loads through the temporary
\* file when dbperf is 99 and executes INSERT statements of at most dbperf
\* rows when dbperf is below 99.
C16_StrategySelection ==
  (pc \in {"scan", "close", "done"} /\ drv_name # "none") =>
    IF drv_name = "csv"
    THEN /\ csv_only /\ csv2db
         /\ Ops \subseteq {"fopen", "fprintf", "fclose"}
    ELSE IF drv_name \in {"dbf", "sqlite"} \/ db_perf < dbperf_csv
    THEN /\ ~csv_only /\ ~csv2db
         /\ SQLPacketSize = IF drv_name \in {"dbf", "sqlite"} THEN 1 ELSE db_perf
         /\ Ops \cap {"mkstemp", "fopen", "fprintf", "fflush", "load", "fclose"} = {}
         /\ ScanDoneBatched => \A r \in 0 .. nrows - 1 :
              Len(InsertsOfRow(Inserts, r)) = Ceil(Cardinality(RowPoints(r)), SQLPacketSize)
    ELSE /\ ~csv_only /\ csv2db
         /\ "mkstemp" \in Ops
         /\ Ops \cap {"begin_transaction", "insert", "commit_transaction", "fopen"} = {}

\* sqlite with dbperf=99 has executed one INSERT statement for each of two points
C16_Witness ==
  /\ pc = "done"
  /\ drv_name = "sqlite"
  /\ db_perf = dbperf_csv
  /\ Len(Inserts) = 2
  /\ ncols = 2

\* the lines go to the temporary file
Staged == csv2db /\ ~csv_only

\* the lines printed to csv_fp so far, in order
RECURSIVE ArgsOf(_)
ArgsOf(calls) == IF calls = <<>> THEN <<>> ELSE <<Head(calls).arg>> \o ArgsOf(Tail(calls))

Printed == ArgsOf(CallsOf(db_log, {"fprintf"}))

\* C17: with the lines going to the temporary file, no INSERT statement is
\* executed and no transaction begun or committed; the load statement is
\* executed at most once, as the last call, right after the flush and after
\* the line of every point put in the output was printed, with all these
\* lines in the file; a run that ends well has executed it exactly once.
C17_StagedLoad ==
  Staged =>
    /\ Ops \cap {"begin_transaction", "insert", "commit_transaction"} = {}
    /\ Count("load") <= 1
    /\ "load" \in Ops =>
         /\ db_log[Len(db_log)].op = "load"
         /\ db_log[Len(db_log) - 1].op = "fflush"
         /\ Printed = RecordsFrom(0)
         /\ db_log[Len(db_log)].arg = RecordsFrom(0)
    /\ pc = "done" => Count("load") = 1

\* loaded from a file of several lines, a null point having none
C17_Witness ==
  /\ pc = "done"
  /\ Staged
  /\ Len(tbl.rows) >= 2
  /\ Len(tbl.rows) < nrows * ncols

\* C18: once the scan has ended, the lines printed to csv_fp, and once the
\* run has ended the lines of the file behind it, are the records of the
\* points put in the output in the order of the scan, the same whether the
\* file is the temporary file or the output file.
C18_SameLines ==
  (csv2db /\ pc \in {"close", "done"}) =>
    /\ Printed = RecordsFrom(0)
    /\ pc = "done" => (IF csv_only THEN out_file ELSE tmp_file) = [exists |-> TRUE, lines |-> RecordsFrom(0)]

\* the temporary file of a region of several rows holds lines of two rows
C18_Witness ==
  /\ pc = "done"
  /\ Staged
  /\ \E i \in 1 .. Len(tmp_file.lines) : \E j \in 1 .. Len(tmp_file.lines) :
       tmp_file.lines[i][2] # tmp_file.lines[j][2]

\* C19, a step of a run with driver csv: an output file that is there with
\* overwriting not allowed stays as it is, no line is printed and the run
\* does not get past the opening of the file, where it ends in the fatal
\* error; no table is made and no call goes to the database.
C19_OverwriteStep ==
  drv_name = "csv" =>
    /\ (out_file = OldFile /\ ~ovr) =>
         /\ out_file' = OldFile
         /\ csv_buf' = <<>>
         /\ pc = "open" => pc' = "fatal"
         /\ pc' \in {"aggregate", "open", "fatal"}
    /\ tbl' = NoTable

\* C19, the file: while the run has not opened the output file it is as it
\* was; a file opened for writing holds none of the old lines, and after the
\* run it holds the lines of this run only; the calls made are those to csv_fp.
C19_OverwriteFile ==
  drv_name = "csv" =>
    /\ pc \in {"create", "aggregate", "open"} => out_file \in {NoFile, OldFile}
    /\ pc \in {"scan", "close", "done"} => OldLine \notin Range(out_file.lines)
    /\ pc = "done" => out_file = [exists |-> TRUE, lines |-> RecordsFrom(0)]
    /\ Ops \subseteq {"fopen", "fprintf", "fclose"}

\* C19: every step and every state of a run with driver csv
C19_FlatFileOverwrite == [][C19_OverwriteStep]_vars /\ []C19_OverwriteFile

\* the run ended in the fatal error with the old output file as it was and
\* a point that would have been put in the output
C19_Witness ==
  /\ pc = "fatal"
  /\ drv_name = "csv"
  /\ ~ovr
  /\ out_file = OldFile
  /\ RecordsFrom(0) # <<>>

\* the driver is one of a database
DbDriver == drv_name \notin {"none", "csv"}

\* the place of the first call of one of the ops in the log, 0 when there is none
FirstCall(ops) ==
  IF \E i \in 1 .. Len(db_log) : db_log[i].op \in ops
  THEN CHOOSE i \in 1 .. Len(db_log) :
         /\ db_log[i].op \in ops
         /\ \A j \in 1 .. i - 1 : db_log[j].op \notin ops
  ELSE 0

\* C20, a step of a run with a database driver: a table that is there with
\* overwriting not allowed stays as it is, nothing is asked to delete or drop
\* it, and the run ends in the fatal error at the creation; a table that is
\* there with overwriting allowed is deleted or dropped before the call that
\* creates the new one.
C20_LifecycleStep ==
  (DbDriver /\ pc = "create" /\ tbl = OldTable) =>
    IF ovr
    THEN pc' = "aggregate" =>
           /\ FirstCall({"delete_table", "drop_table"})' > 0
           /\ FirstCall({"delete_table", "drop_table"})' < FirstCall({"create_table"})'
    ELSE /\ pc' = "fatal"
         /\ tbl' = OldTable
         /\ Ops' \cap {"delete_table", "drop_table"} = {}

\* C20, the table: it is created at most once, with 4 * cell_num + 4 columns,
\* before any record is inserted, printed or loaded; once the run is past
\* the creation the table is the one this run created, and what it holds are
\* records of this run.
C20_LifecycleTable ==
  DbDriver =>
    /\ Count("create_table") <= 1
    /\ \A c \in Range(CallsOf(db_log, {"create_table"})) : c.arg = 4 * cell_num + 4
    /\ FirstCall({"insert", "fprintf", "load"}) > 0 =>
         /\ FirstCall({"create_table"}) > 0
         /\ FirstCall({"create_table"}) < FirstCall({"insert", "fprintf", "load"})
    /\ pc \in {"aggregate", "open", "scan", "close", "done"} =>
         /\ Count("create_table") = 1
         /\ tbl.exists
         /\ tbl.cols = 4 * cell_num + 4
         /\ cell_num <= map_number
         /\ OldLine \notin Range(tbl.rows)

\* C20: every step and every state of a run with a database driver
C20_TableLifecycle == [][C20_LifecycleStep]_vars /\ []C20_LifecycleTable

\* a table of two slots was created after the old one was deleted, and has got records
C20_Witness ==
  /\ pc = "done"
  /\ "delete_table" \in Ops
  /\ cell_num = 2
  /\ tbl.cols = 12
  /\ tbl.rows # <<>>

\* ------------------------------------------------------ C21
\* C21: once a call of the write pass that puts records into the sink has failed
\* (INSERT, bulk load, creation of the staging file, print of a line), the run is in
\* the failed state at once: the failed call is the last call made, so nothing is
\* written, loaded or committed after it, and the run does not end well
C21_FailureAborts == sink_fail > 0 => pc = "fatal" /\ Len(db_log) = sink_fail

\* ------------------------------------------------------ C22
\* C22: a run that has failed has completed neither output: the output raster is not
\* written, a table that was there before the run is still there as it was (it is
\* found and deleted only if it was there), and no line of this run is left in a file; a run that has ended well has written the
\* output raster and, with a data table asked for, every record of it
C22_NoPartialSuccess ==
  /\ pc = "fatal" =>
       /\ outrast = <<>>
       /\ "delete_table" \in Ops => tbl = OldTable
       /\ tmp_file.lines = <<>>
  /\ pc = "done" =>
       /\ outrast # <<>>
       /\ drv_name # "none" => Persisted = Range(RecordsFrom(0))

\* ------------------------------------------------------ C23
\* dbperf stands for the load through a CSV file and the driver has no load statement
Unsupported ==
  /\ drv_name \notin {"none", "csv", "dbf", "sqlite"}
  /\ drv_name \notin LoadDrivers
  /\ db_perf = dbperf_csv

\* C23: a run with dbperf = 99 and a database driver that is neither mysql nor pg
\* (nor dbf or sqlite, which ignore dbperf) is found out and ended before a table is
\* deleted, dropped or created, before a grid is read and before a line is printed
\* to the staging file: the run is either not yet past line 677 or has failed, and
\* has done none of these
C23_ConfigBeforeIO ==
  Unsupported =>
    /\ pc \in {"create", "fatal"}
    /\ Ops \cap {"delete_table", "drop_table", "create_table", "fprintf"} = {}
    /\ f_hist = <<>>

\* ------------------------------------------------------ C24
\* the calls that carry records of points
RecordOps == {"insert", "fprintf", "load"}

\* every map is folded into every point and every sum is converted to dBm
AllFolded ==
  /\ pc \notin {"create", "aggregate", "fold", "finalize"}
  /\ DOMAIN f_hist = Maps \X Points
  /\ \A pt \in Points : arr_sumpower[pt] = ToDbm(sum_mW[pt])

\* the write pass has begun or is over
WritePass == pc \in {"open", "scan", "close", "done", "fatal", "crash"}

C24_Step ==
  /\ CallsOf(db_log', RecordOps) # CallsOf(db_log, RecordOps) => AllFolded
  /\ (arr_EcNo # <<>> /\ arr_EcNo' # arr_EcNo) => AllFolded
  /\ WritePass => UNCHANGED <<arr_power, arr_index, arr_sumpower>>

\* C24: a step that inserts, stages or writes a record of a point, or that computes
\* an Ec/No, is taken only when every map has been folded into every point and the
\* sums have been converted; and once the write pass has begun no step changes the
\* ranked arrays or the sum array
C24_AggregateFirst == [][C24_Step]_vars

\* a run of two maps has ended well with records persisted and an Ec/No that is not 0
C24_Witness ==
  /\ pc = "done"
  /\ map_number >= 2
  /\ CallsOf(db_log, RecordOps) # <<>>
  /\ \E pt \in Points : arr_EcNo[pt] # 0

\* ------------------------------------------------------ C25
\* C25: with the driver "none", past line 684 one slot is kept per point whatever
\* cell_num asked for, no call is made to a database driver or to a csv file, and
\* table and files stay as they were; the run ends with the output raster written
C25_NoSink ==
  drv_name = "none" =>
    /\ pc # "create" => cell_num = 1
    /\ db_log = <<>>
    /\ tbl = NoTable /\ out_file = NoFile /\ tmp_file = NoFile
    /\ pc \in {"create", "aggregate", "done"}
    /\ pc = "done" => outrast # <<>> /\ DOMAIN arr_power = {0}

\* the run without a data table has ended with two cells folded in, one slot kept
C25_Witness ==
  /\ drv_name = "none"
  /\ pc = "done"
  /\ map_number = 2
  /\ DOMAIN f_hist = (0 .. 1) \X GridPoints
  /\ DOMAIN arr_power = {0}
  /\ outrast # <<>>

\* ------------------------------------------------------ C26
\* what the sink holds: the lines of the flat file, or the rows of the table
Stored == IF drv_name = "csv" THEN out_file.lines ELSE tbl.rows

\* the points whose strongest power is not the null value
Eligible == {pt \in GridPoints : arr_power[0][pt] # DB_MIN_VAL}

\* C26: under each strategy, when the write pass has ended well the sink holds one
\* record for every point whose strongest power is not the null value and none for
\* any other point; the records are in row-major order of their points, so no point
\* has two records
C26_OneRecordPerPoint ==
  pc = "done" /\ drv_name # "none" =>
    /\ {PointOf(Stored[i]) : i \in DOMAIN Stored} = Eligible
    /\ Len(Stored) = Cardinality(Eligible)
    /\ \A i \in DOMAIN Stored : \A j \in DOMAIN Stored :
         i < j => PointOf(Stored[i]) < PointOf(Stored[j])

\* a pass over two rows has ended well, with a null point between two eligible ones
C26_Witness ==
  /\ pc = "done"
  /\ nrows = 2
  /\ ncols >= 2
  /\ Len(Stored) >= 2
  /\ \E pt \in GridPoints : pt \notin Eligible /\ pt - 1 \in Eligible /\ pt + 1 \in Eligible

\* ------------------------------------------------------ C27
\* the C indexes of the thresholds that are at or below q
AtOrBelow(q) == {i \in 0 .. LTE_CINRSIZE - 1 : LTE_CINRTABLE[i + 1] <= q}

\* the largest element of a nonempty set of integers
Highest(S) == CHOOSE i \in S : \A j \in S : j <= i

\* C27: when the lookup of a point is over, its result is 0 if the quantized ratio
\* is below the first threshold, and otherwise the efficiency at the highest index
\* whose threshold is at or below the quantized ratio, so that a ratio equal to a
\* threshold gets the efficiency of that threshold
C27_EfficiencyLookup ==
  lte_pc = "out" =>
    sigOut = IF AtOrBelow(tmpInt) = {} THEN 0
             ELSE LTE_EFFICTABLE[Highest(AtOrBelow(tmpInt)) + 1]

\* ------------------------------------------------------ C29
\* C29: whatever the quantized ratio, values above the last threshold included, every
\* read of LTE_CINRTABLE and of LTE_EFFICTABLE made by the lookup is at an index
\* in 0 .. 14
C29_ReadsInBounds ==
  /\ cinr_read \subseteq 0 .. LTE_CINRSIZE - 1
  /\ effic_read \subseteq 0 .. LTE_CINRSIZE - 1

\* ------------------------------------------------------ C30
\* the resource blocks of the six bandwidths of LTE, in tenths of a MHz
StandardRB == (14 :> 6) @@ (30 :> 15) @@ (50 :> 25) @@ (100 :> 50) @@ (150 :> 75) @@ (200 :> 100)

C30_Step ==
  lte_pc = "bw" =>
    IF BwMHz \in DOMAIN StandardRB
    THEN nRB' = StandardRB[BwMHz] /\ BwMHz' = BwMHz
    ELSE nRB' = LTE_NRB /\ BwMHz' = LTE_BWMHZ

\* C30: BwMHz2nRB gives 6, 15, 25, 50, 75, 100 resource blocks for 1.4, 3, 5, 10,
\* 15, 20 MHz and leaves the bandwidth as it is; for any other bandwidth it gives
\* the default 50 and sets the bandwidth to 10 MHz
C30_ResourceBlocks == [][C30_Step]_vars

\* ------------------------------------------------------ C28
\* C28: at every moment of the fold, in every slot of a point written so far the
\* index is that of a map already folded into the point and the power is the
\* reading of that very map at the point; no two written slots of a point hold
\* the same index
C28_PowerIndexPairing ==
  pc \in {"fold", "finalize"} =>
    \A pt \in Points :
      /\ \A s \in 0 .. RankedLen(pt) - 1 :
           /\ arr_index[s][pt] \in Maps
           /\ <<arr_index[s][pt], pt>> \in DOMAIN f_hist
           /\ arr_power[s][pt] = Reading(arr_index[s][pt], pt)
      /\ Cardinality(RankedMaps(pt, RankedLen(pt))) = RankedLen(pt)

\* three maps are folded into two slots, a later map has taken the place of an
\* earlier one and an entry has moved up
C28_Witness ==
  /\ pc = "finalize"
  /\ map_number = 3
  /\ cell_num = 2
  /\ arr_index[0][0] = 2
  /\ arr_index[1][0] = 1
  /\ arr_power[0][0] > arr_power[1][0]

====
